---- MODULE Spec2Model ----
(***************************************************************************)
(* Model of the image-vision MCP servers (src/src/image-vision-mcp.js and  *)
(* src/src/vision-mcp.js): the path gate (isSafePath / checkPath) and the  *)
(* batch tool handlers that call the Ollama vision model once per allowed  *)
(* path.                                                                   *)
(*                                                                         *)
(* A JavaScript string is a sequence of one-character strings, so that     *)
(* String.prototype.startsWith, path.resolve and path.normalize are        *)
(* computed on characters as Node computes them (POSIX flavour).           *)
(***************************************************************************)
EXTENDS Integers, Sequences, FiniteSets, TLC

(***************************************************************************)
(* Bounds of the model.                                                    *)
(***************************************************************************)
\* longest candidate path string enumerated character by character
MaxPathLen == 5
\* most --permitted entries enumerated for the path gate
MaxRoots == 2
\* most mediaPaths in one tool call
MaxBatch == 2

(***************************************************************************)
(* Strings.                                                                *)
(***************************************************************************)
Chars == {"/", ".", "a", "b"}

RECURSIVE StringsOfLen(_)
StringsOfLen(n) ==
    IF n = 0 THEN {<<>>}
    ELSE {Append(s, c) : s \in StringsOfLen(n - 1), c \in Chars}

RECURSIVE StringsUpTo(_)
StringsUpTo(n) ==
    IF n = 0 THEN StringsOfLen(0) ELSE StringsOfLen(n) \cup StringsUpTo(n - 1)

\* Below, an operator that reads an argument several times first binds it to
\* its value (x \in {argument}), so that the argument is computed once.

\* String.prototype.startsWith
startsWith(s, prefix) ==
    \E str \in {s}, pre \in {prefix} :
        /\ Len(pre) <= Len(str)
        /\ SubSeq(str, 1, Len(pre)) = pre

\* s.split("/"): the segments between slashes, empty ones included
RECURSIVE SplitFrom(_, _, _)
SplitFrom(s, i, cur) ==
    IF i > Len(s) THEN <<cur>>
    ELSE IF s[i] = "/" THEN <<cur>> \o SplitFrom(s, i + 1, <<>>)
    ELSE SplitFrom(s, i + 1, Append(cur, s[i]))

Split(s) == CHOOSE segs \in {SplitFrom(str, 1, <<>>) : str \in {s}} : TRUE

\* segs.join("/")
RECURSIVE Join(_)
Join(segs) ==
    IF Len(segs) = 0 THEN <<>>
    ELSE IF Len(segs) = 1 THEN segs[1]
    ELSE segs[1] \o <<"/">> \o Join(Tail(segs))

DotSeg == <<".">>
DotDotSeg == <<".", ".">>

(***************************************************************************)
(* Node's path module (POSIX): normalizeString, path.resolve and           *)
(* path.normalize, as called at image-vision-mcp.js:276 and :279.          *)
(***************************************************************************)
\* normalizeString, on the segments of the path: "" and "." are dropped, ".."
\* removes the segment before it (or is kept when allowAboveRoot and nothing
\* can be removed).
RECURSIVE NormalizeSegs(_, _, _)
NormalizeSegs(segs, acc, allowAboveRoot) ==
    IF Len(segs) = 0 THEN acc
    ELSE LET s == Head(segs)
             rest == Tail(segs)
         IN IF s = <<>> \/ s = DotSeg
                THEN NormalizeSegs(rest, acc, allowAboveRoot)
            ELSE IF s = DotDotSeg
                THEN IF Len(acc) > 0 /\ acc[Len(acc)] # DotDotSeg
                         THEN NormalizeSegs(rest, SubSeq(acc, 1, Len(acc) - 1), allowAboveRoot)
                     ELSE IF allowAboveRoot
                         THEN NormalizeSegs(rest, Append(acc, s), allowAboveRoot)
                     ELSE NormalizeSegs(rest, acc, allowAboveRoot)
            ELSE NormalizeSegs(rest, Append(acc, s), allowAboveRoot)

normalizeString(p, allowAboveRoot) ==
    CHOOSE res \in {Join(NormalizeSegs(segs, <<>>, allowAboveRoot)) : segs \in {Split(p)}} : TRUE

\* process.cwd(), an absolute directory
cwd == <<"/", "a">>

\* path.resolve(p): relative paths are taken from the working directory; the
\* result is absolute, without ".", ".." or a trailing slash.
resolve(p) ==
    LET joined(path) == IF Len(path) = 0 THEN cwd \o <<"/">>
                        ELSE IF path[1] = "/" THEN path \o <<"/">>
                        ELSE cwd \o <<"/">> \o path \o <<"/">>
    IN CHOOSE res \in {<<"/">> \o normalizeString(joined(path), FALSE) : path \in {p}} : TRUE

\* path.normalize(p)
normalize(p) ==
    LET normalized(path) ==
            IF Len(path) = 0 THEN <<".">>
            ELSE LET isAbsolute == path[1] = "/"
                     trailingSeparator == path[Len(path)] = "/"
                     n == normalizeString(path, ~isAbsolute)
                 IN IF Len(n) = 0
                        THEN (IF isAbsolute THEN <<"/">>
                              ELSE IF trailingSeparator THEN <<".", "/">> ELSE <<".">>)
                    ELSE LET t == IF trailingSeparator THEN n \o <<"/">> ELSE n
                         IN IF isAbsolute THEN <<"/">> \o t ELSE t
    IN CHOOSE res \in {normalized(path) : path \in {p}} : TRUE

(***************************************************************************)
(* The host filesystem seen by fs.existsSync (image-vision-mcp.js:295):    *)
(* the directories and the files that exist, each named by the segments of *)
(* its absolute path.  The root <<>> is a directory.                       *)
(***************************************************************************)
\* the characters of a string literal
Str(s) == [i \in 1 .. Len(s) |-> SubSeq(s, i, i)]

\* the segments of an absolute path written as a literal
Loc(s) == NormalizeSegs(Split(Str(s)), <<>>, FALSE)

Parent(loc) == IF Len(loc) = 0 THEN loc ELSE SubSeq(loc, 1, Len(loc) - 1)

\* The kernel's walk along the components of a path: every component is looked
\* up in a directory that exists, ".." included, so "/x/../a" does not exist when
\* /x does not, and "/f/" does not exist when /f is a file.
RECURSIVE Walk(_, _, _)
Walk(fs, at, comps) ==
    IF Len(comps) = 0 THEN at \in fs.dirs \cup fs.files
    ELSE LET c == Head(comps)
             rest == Tail(comps)
         IN IF at \notin fs.dirs THEN FALSE
            ELSE IF c = <<>> \/ c = DotSeg THEN Walk(fs, at, rest)
            ELSE IF c = DotDotSeg THEN Walk(fs, Parent(at), rest)
            ELSE Walk(fs, Append(at, c), rest)

\* fs.existsSync(p) on the filesystem fs; the empty path does not exist
existsSyncIn(fs, p) ==
    \E path \in {p} :
        /\ Len(path) > 0
        /\ \E comps \in {Split(path)} :
            Walk(fs, IF path[1] = "/" THEN <<>> ELSE NormalizeSegs(Split(cwd), <<>>, FALSE),
                 comps)

(***************************************************************************)
(* State.                                                                  *)
(***************************************************************************)
VARIABLES
    permittedDirectories,   \* values.permitted || [], fixed at start
    fsys,                   \* the host filesystem
    server,                 \* which of the two server scripts is running
    pc,                     \* position of the running tool handler
    tool,                   \* the tool being served
    prompt,                 \* the instruction sent along with each image
    mediaPaths,             \* the handler's argument
    idx,                    \* position of the for-of loop in mediaPaths
    results,                \* the handler's results array
    response,               \* what the handler's promise settled with
    inflight,               \* loop positions whose ollama.chat call is pending
    log,                    \* history of the handler's steps in this call
    checked                 \* a direct checkPath call: its argument and how it ended

vars == <<permittedDirectories, fsys, server, pc, tool, prompt, mediaPaths, idx,
          results, response, inflight, log, checked>>

None == [none |-> TRUE]

(***************************************************************************)
(* isSafePath and checkPath (image-vision-mcp.js:275-304, identical in     *)
(* vision-mcp.js:109-138).                                                 *)
(***************************************************************************)
\* the for-of loop of isSafePath over the permitted directories, from entry k
\* (startsWith on two strings does not throw, so the catch branch is never taken)
RECURSIVE isSafePathFrom(_, _, _)
isSafePathFrom(dirs, normalizedPath, k) ==
    IF k > Len(dirs) THEN FALSE
    ELSE LET normalizedBasePath == normalize(resolve(dirs[k]))
         IN IF startsWith(normalizedPath, normalizedBasePath) THEN TRUE
            ELSE isSafePathFrom(dirs, normalizedPath, k + 1)

\* Mutant: the loop returns after looking at the first permitted directory.
isSafePathIn_FirstOnly(dirs, pathToCheck) ==
    /\ Len(dirs) > 0
    /\ startsWith(normalize(resolve(pathToCheck)), normalize(resolve(dirs[1])))

\* Mutant: containment is tested on whole path segments, so that /a/bc is not
\* inside /a/b.
isSafePathIn_SegmentBoundary(dirs, pathToCheck) ==
    \E k \in 1 .. Len(dirs) :
        LET ps == NormalizeSegs(Split(normalize(resolve(pathToCheck))), <<>>, FALSE)
            rs == NormalizeSegs(Split(normalize(resolve(dirs[k]))), <<>>, FALSE)
        IN Len(rs) <= Len(ps) /\ SubSeq(ps, 1, Len(rs)) = rs

isSafePathIn(dirs, pathToCheck) ==
    \E normalizedPath \in {normalize(resolve(pathToCheck))} :
        isSafePathFrom(dirs, normalizedPath, 1)

isSafePath(pathToCheck) == isSafePathIn(permittedDirectories, pathToCheck)

existsSync(p) == existsSyncIn(fsys, p)

\* an Error's message: a fixed text, followed by an interpolated string
Msg(text, arg) == [text |-> text, arg |-> arg]

NotFoundMsg(filePath) == Msg("Path does not exist: ", filePath)
NotAllowedMsg == Msg("Path not allowed: Not in permitted directories", <<>>)

Returned(v) == [threw |-> FALSE, value |-> v]
Threw(m) == [threw |-> TRUE, message |-> m]

\* Mutant: containment is checked before existence.
checkPathIn_ContainmentFirst(fs, dirs, filePath) ==
    IF ~isSafePathIn(dirs, filePath) THEN Threw(NotAllowedMsg)
    ELSE IF ~existsSyncIn(fs, filePath) THEN Threw(NotFoundMsg(filePath))
    ELSE Returned(TRUE)

\* checkPath, with the filesystem and the permitted directories it reads made
\* explicit
checkPathIn(fs, dirs, filePath) ==
    IF ~existsSyncIn(fs, filePath) THEN Threw(NotFoundMsg(filePath))
    ELSE IF ~isSafePathIn(dirs, filePath) THEN Threw(NotAllowedMsg)
    ELSE Returned(TRUE)

checkPath(filePath) == checkPathIn(fsys, permittedDirectories, filePath)

(***************************************************************************)
(* Inputs.                                                                 *)
(***************************************************************************)
\* --permitted values tried for the path gate: absolute, with a trailing
\* slash, relative to the working directory, and the filesystem root
RootChoices == {Str("/a"), Str("/b/"), Str("a"), Str("/")}

RECURSIVE SeqsUpTo(_, _)
SeqsUpTo(S, n) ==
    IF n = 0 THEN {<<>>}
    ELSE LET shorter == SeqsUpTo(S, n - 1)
         IN shorter \cup {Append(q, x) : q \in {r \in shorter : Len(r) = n - 1}, x \in S}

FsFull ==
    [dirs |-> {Loc("/"), Loc("/a"), Loc("/a/a"), Loc("/ab"), Loc("/b")},
     files |-> {Loc("/a/b"), Loc("/a/a/b"), Loc("/a/aa"), Loc("/ab/a"), Loc("/b/a"), Loc("/bb")}]

\* as FsFull, without the file /bb
FsNoBb == [FsFull EXCEPT !.files = @ \ {Loc("/bb")}]

\* only the working directory exists
FsBare == [dirs |-> {Loc("/"), Loc("/a")}, files |-> {}]

FsChoices == {FsFull, FsNoBb, FsBare}

\* candidate paths: every string over Chars up to MaxPathLen
Candidates == StringsUpTo(MaxPathLen)

(***************************************************************************)
(* The path gate alone: checkPath called on one candidate path.            *)
(***************************************************************************)
Idle ==
    /\ pc = "idle"
    /\ tool = "none"
    /\ prompt = ""
    /\ mediaPaths = <<>>
    /\ idx = 1
    /\ results = <<>>
    /\ response = None
    /\ inflight = {}
    /\ log = <<>>

InitAuth ==
    /\ permittedDirectories \in SeqsUpTo(RootChoices, MaxRoots)
    /\ fsys \in FsChoices
    /\ server = "image-vision-mcp"
    /\ Idle
    /\ checked \in {[filePath |-> p, outcome |-> None] : p \in Candidates}

CallCheckPath ==
    /\ checked # None
    /\ checked.outcome = None
    /\ checked' = [checked EXCEPT !.outcome = checkPath(checked.filePath)]
    /\ UNCHANGED <<permittedDirectories, fsys, server, pc, tool, prompt, mediaPaths,
                   idx, results, response, inflight, log>>

NextAuth == CallCheckPath

SpecAuth == InitAuth /\ [][NextAuth]_vars

(***************************************************************************)
(* JavaScript values that end up in the results.                           *)
(***************************************************************************)
JsString(v) == [t |-> "string", v |-> v]
JsNull == [t |-> "null"]
JsUndefined == [t |-> "undefined"]

EmptyMsg == Msg("", <<>>)

\* error.message || "Unknown error occurred"
MessageOr(message) ==
    IF message = EmptyMsg THEN Msg("Unknown error occurred", <<>>) ELSE message

\* the record pushed in the try block
SuccessResult(filePath, description) ==
    [description |-> description, path |-> filePath, success |-> TRUE]

\* the record pushed in the catch block
FailureResult(filePath, message) ==
    [path |-> filePath, success |-> FALSE, error |-> MessageOr(message),
     description |-> JsNull]

\* JSON.stringify(results, null, 2), given as the value the text parses to: the
\* array keeps its length and order, and a property whose value is undefined is
\* left out.
stringify(rs) ==
    [i \in 1 .. Len(rs) |->
        IF rs[i].description = JsUndefined
            THEN [path |-> rs[i].path, success |-> rs[i].success]
        ELSE rs[i]]

(***************************************************************************)
(* The Ollama client: configuration and what a chat call can come back     *)
(* with.                                                                   *)
(***************************************************************************)
host == "http://127.0.0.1:11434"
model == "llava:34b"

GenericPrompt == "Analyze this image and provide a detailed description. ..."
PhotoshopPrompt == "Analyze this Photoshop layer for design work. ..."
PhotographPrompt == "Analyze this photograph from your perspective as a visual critic, ..."
VisionPrompt == "Describe this image"
CustomPrompts == {"List the colors"}

\* the argument of ollama.chat in _executePrompt
ChatRequest(filePath, content) ==
    [host |-> host,
     model |-> model,
     messages |-> <<[role |-> "user", content |-> content, images |-> <<filePath>>]>>]

\* values the chat promise can resolve with: a described image, a message
\* without content, no message at all
ChatResponses ==
    {[message |-> [content |-> JsString("a cat on a sofa")]],
     [message |-> [content |-> JsUndefined]],
     [message |-> JsUndefined]}

\* Errors the chat promise can reject with (an Error object, its message
\* possibly empty)
ChatErrors == {Msg("fetch failed", <<>>), EmptyMsg}

TypeErrorMsg == Msg("Cannot read properties of undefined (reading 'content')", <<>>)

(***************************************************************************)
(* Inputs of the tool handlers.                                            *)
(***************************************************************************)
CatPng == Str("/a/b/cat.png")
Secret == Str("/a/bc/secret")
Passwd == Str("/etc/passwd")
GonePng == Str("/a/b/gone.png")

BatchPaths == {CatPng, Secret, Passwd, GonePng}

FsHost ==
    [dirs |-> {Loc("/"), Loc("/a"), Loc("/a/b"), Loc("/a/bc"), Loc("/etc")},
     files |-> {Loc("/a/b/cat.png"), Loc("/a/bc/secret"), Loc("/etc/passwd")}]

\* as FsHost, without the file /etc/passwd
FsNoPasswd == [FsHost EXCEPT !.files = @ \ {Loc("/etc/passwd")}]

\* as FsHost, without the file /a/bc/secret
FsNoSecret == [FsHost EXCEPT !.files = @ \ {Loc("/a/bc/secret")}]

BatchFs == {FsHost, FsNoPasswd, FsNoSecret}

BatchRoots == {<<Str("/a/b")>>, <<Str("/data/images"), Str("/a/b/")>>, <<>>}

Batches == SeqsUpTo(BatchPaths, MaxBatch)

(***************************************************************************)
(* The tool handlers.  The four handlers of image-vision-mcp.js            *)
(* (66-97, 107-149, 159-202, 212-253) and the one of vision-mcp.js         *)
(* (66-105) run the same loop and differ in the instruction they send.     *)
(***************************************************************************)
Init ==
    /\ permittedDirectories \in BatchRoots
    /\ fsys \in BatchFs
    /\ server \in {"image-vision-mcp", "vision-mcp"}
    /\ Idle
    /\ checked = None

\* entry of a handler: const results = []; the loop starts at the first path
Enter(t, paths, content) ==
    /\ pc = "idle"
    /\ pc' = "loop"
    /\ tool' = t
    /\ prompt' = content
    /\ mediaPaths' = paths
    /\ idx' = 1
    /\ results' = <<>>
    /\ response' = None
    /\ inflight' = {}
    /\ log' = <<>>
    /\ UNCHANGED <<permittedDirectories, fsys, server, checked>>

getImageDescriptionWithPrompt(paths, content) ==
    /\ server = "image-vision-mcp"
    /\ Enter("getImageDescriptionWithPrompt", paths, content)

getImageDescription(paths) ==
    /\ server = "image-vision-mcp"
    /\ Enter("getImageDescription", paths, GenericPrompt)

getPhotoshopImageDescription(paths) ==
    /\ server = "image-vision-mcp"
    /\ Enter("getPhotoshopImageDescription", paths, PhotoshopPrompt)

getPhotographDescription(paths) ==
    /\ server = "image-vision-mcp"
    /\ Enter("getPhotographDescription", paths, PhotographPrompt)

visionGetImageDescription(paths) ==
    /\ server = "vision-mcp"
    /\ Enter("getImageDescription", paths, VisionPrompt)

\* Mutant: the first failing path ends the loop (the failure is recorded, the
\* remaining paths are skipped).
LoopBody_AbortOnError ==
    /\ pc = "loop"
    /\ idx <= Len(mediaPaths)
    /\ LET filePath == mediaPaths[idx]
           r == checkPath(filePath)
           ck == [ev |-> "checkPath", i |-> idx, outcome |-> r]
       IN IF r.threw
              THEN /\ results' = Append(results, FailureResult(filePath, r.message))
                   /\ idx' = Len(mediaPaths) + 1
                   /\ log' = log \o <<ck, [ev |-> "push", i |-> idx]>>
                   /\ UNCHANGED <<pc, inflight>>
          ELSE /\ pc' = "await"
               /\ inflight' = inflight \cup {idx}
               /\ log' = log \o <<ck, [ev |-> "chat", i |-> idx,
                                       request |-> ChatRequest(filePath, prompt)]>>
               /\ UNCHANGED <<results, idx>>
    /\ UNCHANGED <<permittedDirectories, fsys, server, tool, prompt, mediaPaths,
                   response, checked>>

\* Mutant: the chat call is not awaited; the loop goes on to the next path
\* while the call is pending.
LoopBody_NoAwait ==
    /\ pc = "loop"
    /\ idx <= Len(mediaPaths)
    /\ LET filePath == mediaPaths[idx]
           r == checkPath(filePath)
           ck == [ev |-> "checkPath", i |-> idx, outcome |-> r]
       IN IF r.threw
              THEN /\ results' = Append(results, FailureResult(filePath, r.message))
                   /\ log' = log \o <<ck, [ev |-> "push", i |-> idx]>>
                   /\ UNCHANGED inflight
          ELSE /\ inflight' = inflight \cup {idx}
               /\ results' = Append(results, SuccessResult(filePath, JsUndefined))
               /\ log' = log \o <<ck, [ev |-> "chat", i |-> idx,
                                       request |-> ChatRequest(filePath, prompt)],
                                  [ev |-> "push", i |-> idx]>>
    /\ idx' = idx + 1
    /\ UNCHANGED <<pc, permittedDirectories, fsys, server, tool, prompt, mediaPaths,
                   response, checked>>

\* One iteration of the for-of loop up to its await: checkPath(filePath)
\* throws and the catch block pushes the failure, or it returns and the chat
\* call is issued.
LoopBody ==
    /\ pc = "loop"
    /\ idx <= Len(mediaPaths)
    /\ LET filePath == mediaPaths[idx]
           r == checkPath(filePath)
           ck == [ev |-> "checkPath", i |-> idx, outcome |-> r]
       IN IF r.threw
              THEN /\ results' = Append(results, FailureResult(filePath, r.message))
                   /\ idx' = idx + 1
                   /\ log' = log \o <<ck, [ev |-> "push", i |-> idx]>>
                   /\ UNCHANGED <<pc, inflight>>
          ELSE /\ pc' = "await"
               /\ inflight' = inflight \cup {idx}
               /\ log' = log \o <<ck, [ev |-> "chat", i |-> idx,
                                       request |-> ChatRequest(filePath, prompt)]>>
               /\ UNCHANGED <<results, idx>>
    /\ UNCHANGED <<permittedDirectories, fsys, server, tool, prompt, mediaPaths,
                   response, checked>>

\* The awaited chat call resolves with res: res.message.content is read (a
\* TypeError when res.message is undefined, caught like any other error) and
\* the success record is pushed.
ChatResolves(res) ==
    /\ pc = "await"
    /\ idx \in inflight
    /\ LET filePath == mediaPaths[idx]
       IN results' = IF res.message = JsUndefined
                         THEN Append(results, FailureResult(filePath, TypeErrorMsg))
                     ELSE Append(results, SuccessResult(filePath, res.message.content))
    /\ inflight' = inflight \ {idx}
    /\ log' = log \o <<[ev |-> "resolved", i |-> idx, res |-> res],
                       [ev |-> "push", i |-> idx]>>
    /\ idx' = idx + 1
    /\ pc' = "loop"
    /\ UNCHANGED <<permittedDirectories, fsys, server, tool, prompt, mediaPaths,
                   response, checked>>

\* Mutant: no catch block; the rejection leaves the handler.
ChatRejects_Propagate(message) ==
    /\ pc = "await"
    /\ idx \in inflight
    /\ inflight' = inflight \ {idx}
    /\ log' = Append(log, [ev |-> "rejected", i |-> idx, message |-> message])
    /\ response' = [rejected |-> message]
    /\ pc' = "threw"
    /\ UNCHANGED <<permittedDirectories, fsys, server, tool, prompt, mediaPaths, idx,
                   results, checked>>

\* The awaited chat call rejects: the catch block pushes the failure.
ChatRejects(message) ==
    /\ pc = "await"
    /\ idx \in inflight
    /\ results' = Append(results, FailureResult(mediaPaths[idx], message))
    /\ inflight' = inflight \ {idx}
    /\ log' = log \o <<[ev |-> "rejected", i |-> idx, message |-> message],
                       [ev |-> "push", i |-> idx]>>
    /\ idx' = idx + 1
    /\ pc' = "loop"
    /\ UNCHANGED <<permittedDirectories, fsys, server, tool, prompt, mediaPaths,
                   response, checked>>

\* Mutant: a timeout; the handler returns what it has while a chat call is
\* still pending.
Return_OnTimeout ==
    /\ \/ pc = "loop" /\ idx > Len(mediaPaths)
       \/ pc = "await"
    /\ response' = [content |-> <<[type |-> "text", text |-> stringify(results)]>>]
    /\ pc' = "done"
    /\ UNCHANGED <<permittedDirectories, fsys, server, tool, prompt, mediaPaths, idx,
                   results, inflight, log, checked>>

\* The loop is over: the handler returns the results as one text item.
Return ==
    /\ pc = "loop"
    /\ idx > Len(mediaPaths)
    /\ response' = [content |-> <<[type |-> "text", text |-> stringify(results)]>>]
    /\ pc' = "done"
    /\ UNCHANGED <<permittedDirectories, fsys, server, tool, prompt, mediaPaths, idx,
                   results, inflight, log, checked>>

\* The transport sends the response; the handler's frame is gone and the server
\* waits for the next request.
Deliver ==
    /\ pc = "done"
    /\ pc' = "idle"
    /\ tool' = "none"
    /\ prompt' = ""
    /\ mediaPaths' = <<>>
    /\ idx' = 1
    /\ results' = <<>>
    /\ response' = None
    /\ inflight' = {}
    /\ log' = <<>>
    /\ UNCHANGED <<permittedDirectories, fsys, server, checked>>

Next ==
    \/ \E paths \in Batches, content \in CustomPrompts :
            getImageDescriptionWithPrompt(paths, content)
    \/ \E paths \in Batches : getImageDescription(paths)
    \/ \E paths \in Batches : getPhotoshopImageDescription(paths)
    \/ \E paths \in Batches : getPhotographDescription(paths)
    \/ \E paths \in Batches : visionGetImageDescription(paths)
    \/ LoopBody
    \/ \E res \in ChatResponses : ChatResolves(res)
    \/ \E message \in ChatErrors : ChatRejects(message)
    \/ Return
    \/ Deliver

Spec == Init /\ [][Next]_vars

\* the pending chat call ends, one way or the other
ChatSettles ==
    \/ \E res \in ChatResponses : ChatResolves(res)
    \/ \E message \in ChatErrors : ChatRejects(message)

\* The event loop runs a handler's continuation whenever it is ready
\* (WF on LoopBody and Return).  Nothing in the code makes the remote model
\* answer: WF on ChatSettles is the hypothesis "every chat call that is made
\* ends", under which termination is asked.
SpecAnswered == Spec /\ WF_vars(LoopBody) /\ WF_vars(Return) /\ WF_vars(ChatSettles)

(***************************************************************************)
(* Vocabulary of the claims about the path gate.                           *)
(***************************************************************************)
\* the segments of the absolute normalized form of a path
SegsOf(p) == NormalizeSegs(Split(normalize(resolve(p))), <<>>, FALSE)

\* p is the directory root or lies below it: root's segments begin p's
ResidesUnder(p, root) ==
    \E ps \in {SegsOf(p)}, rs \in {SegsOf(root)} :
        Len(rs) <= Len(ps) /\ SubSeq(ps, 1, Len(rs)) = rs

UnderSomeRoot(p) ==
    \E k \in 1 .. Len(permittedDirectories) : ResidesUnder(p, permittedDirectories[k])

\* the resolved string of some permitted directory begins the resolved string
\* of p
PrefixOfSomeRoot(p) ==
    \E k \in 1 .. Len(permittedDirectories) :
        startsWith(normalize(resolve(p)), normalize(resolve(permittedDirectories[k])))

\* a direct checkPath call has ended
CheckDone == checked # None /\ checked.outcome # None

(***************************************************************************)
(* C1: a path whose absolute normalized form resides under no permitted    *)
(* directory is denied by checkPath (it throws), whether or not the path   *)
(* exists, and also when no directory is permitted.                        *)
(***************************************************************************)
C1_OutsideRootsDenied ==
    (CheckDone /\ ~UnderSomeRoot(checked.filePath)) => checked.outcome.threw

(***************************************************************************)
(* C2: a path that exists and resides under at least one permitted         *)
(* directory is allowed by checkPath (it returns true), whatever the       *)
(* position of that directory in the list.                                 *)
(***************************************************************************)
C2_InsideRootsAllowed ==
    (CheckDone /\ existsSync(checked.filePath) /\ UnderSomeRoot(checked.filePath))
        => checked.outcome = Returned(TRUE)

\* an allowed path whose only matching directory is the second of two
C2_Witness ==
    /\ CheckDone
    /\ checked.outcome = Returned(TRUE)
    /\ Len(permittedDirectories) = 2
    /\ ResidesUnder(checked.filePath, permittedDirectories[2])
    /\ ~startsWith(normalize(resolve(checked.filePath)),
                   normalize(resolve(permittedDirectories[1])))

(***************************************************************************)
(* C3: a path that does not exist makes checkPath throw 'Path does not     *)
(* exist: <path>', never 'Path not allowed' and never a return, also when  *)
(* the path lies inside a permitted directory.                             *)
(***************************************************************************)
C3_MissingIsNotFound ==
    (CheckDone /\ ~existsSync(checked.filePath))
        => checked.outcome = Threw(NotFoundMsg(checked.filePath))

\* a missing path inside a permitted directory was answered NotFound
C3_Witness ==
    /\ CheckDone
    /\ ~existsSync(checked.filePath)
    /\ UnderSomeRoot(checked.filePath)
    /\ checked.outcome = Threw(NotFoundMsg(checked.filePath))

(***************************************************************************)
(* Vocabulary of the claims about a tool call.                             *)
(***************************************************************************)
Done == pc = "done"

Positions == 1 .. Len(mediaPaths)

\* places of the log where a step of the given kind on path i is recorded
At(kind, i) == {k \in 1 .. Len(log) : log[k].ev = kind /\ log[k].i = i}

\* the loop positions for which ollama.chat was called
Chatted == {i \in Positions : At("chat", i) # {}}

\* the loop positions whose path checkPath allows
Allowed == {i \in Positions : ~checkPath(mediaPaths[i]).threw}

\* the JSON text of the response
ResponseText == response.content[1].text

\* the loop body has run for path i
Processed(i) == i < idx \/ (i = idx /\ pc = "await")

(***************************************************************************)
(* C4: whatever the tool and whatever the mix of missing, out-of-root,     *)
(* provider-failing and succeeding paths, the response lists exactly as    *)
(* many outcomes as paths were requested, and the i-th outcome carries the *)
(* i-th requested path.                                                    *)
(***************************************************************************)
C4_OneOutcomePerPathInOrder ==
    Done =>
        /\ Len(response.content) = 1
        /\ Len(ResponseText) = Len(mediaPaths)
        /\ \A i \in Positions : ResponseText[i].path = mediaPaths[i]

\* a finished batch in which a denied path comes before a described one
C4_Witness ==
    /\ Done
    /\ \E i, j \in Positions :
        /\ i < j
        /\ ~ResponseText[i].success
        /\ ResponseText[j].success
        /\ ResponseText[j].path = mediaPaths[j]

\* Every chat call directly follows a checkPath of the same path that returned,
\* carries that path as its only image and is the only call for its position;
\* a finished batch has called chat for exactly the positions checkPath allows.
ChatGatedByCheckPath ==
    /\ \A k \in 1 .. Len(log) :
        log[k].ev = "chat" =>
            /\ k > 1
            /\ log[k - 1] = [ev |-> "checkPath", i |-> log[k].i, outcome |-> Returned(TRUE)]
            /\ log[k].request.messages[1].images = <<mediaPaths[log[k].i]>>
            /\ At("chat", log[k].i) = {k}
            /\ existsSync(mediaPaths[log[k].i])
    /\ Done =>
        /\ Chatted = Allowed
        /\ Cardinality({k \in 1 .. Len(log) : log[k].ev = "chat"}) = Cardinality(Allowed)

(***************************************************************************)
(* C5: ollama.chat is called for a path only after checkPath allowed it,   *)
(* never for a path that does not exist or that lies outside the permitted *)
(* directories, and exactly once for each allowed path, so that a finished *)
(* batch has made as many calls as it has allowed paths.                   *)
(***************************************************************************)
C5_ProviderOnlyInsideRoots ==
    /\ ChatGatedByCheckPath
    /\ \A i \in Chatted : UnderSomeRoot(mediaPaths[i])

\* how the chat call for path i ended, when it has
SettledAt(i) == {k \in 1 .. Len(log) : log[k].i = i /\ log[k].ev \in {"resolved", "rejected"}}

\* the outcome of a request for the single path p, whose checkPath ends as r and
\* whose chat call (if any) ends as the log entry e says
Alone(p, r, e) ==
    IF r.threw THEN FailureResult(p, r.message)
    ELSE IF e.ev = "rejected" THEN FailureResult(p, e.message)
    ELSE IF e.res.message = JsUndefined THEN FailureResult(p, TypeErrorMsg)
    ELSE SuccessResult(p, e.res.message.content)

\* the handler has not thrown: it runs, or it returned a response
NothingPropagates ==
    /\ pc \in {"idle", "loop", "await", "done"}
    /\ response # None => (Done /\ DOMAIN response = {"content"})

(***************************************************************************)
(* C6: a checkPath denial or an error of the chat call becomes the failure *)
(* record of that path (success false, an error message, description      *)
(* null) and never leaves the handler; the other paths of the batch are    *)
(* processed, each with the outcome it would have had alone.               *)
(***************************************************************************)
C6_FailuresAreLocal ==
    /\ NothingPropagates
    /\ \A i \in 1 .. Len(results) :
        \E p \in {mediaPaths[i]} : \E r \in {checkPath(p)} :
            /\ (r.threw \/ \E k \in SettledAt(i) : log[k].ev = "rejected") =>
                    /\ results[i].success = FALSE
                    /\ results[i].description = JsNull
                    /\ results[i].error # EmptyMsg
            /\ IF r.threw THEN results[i] = Alone(p, r, None)
               ELSE \E k \in SettledAt(i) : results[i] = Alone(p, r, log[k])
    /\ Done => Len(results) = Len(mediaPaths)

\* a finished batch whose first path failed in the chat call and whose second
\* path was described
C6_Witness ==
    /\ Done
    /\ Len(mediaPaths) >= 2
    /\ \E k \in SettledAt(1) : log[k].ev = "rejected"
    /\ results[1].success = FALSE
    /\ results[2].success = TRUE

(***************************************************************************)
(* C7: containment is a prefix test on the resolved strings, not on path   *)
(* segments: an existing path is allowed, and sent to ollama.chat, exactly *)
(* when the resolved string of some permitted directory begins its         *)
(* resolved string; with /a/b permitted, the existing /a/bc/secret is      *)
(* allowed.                                                                *)
(***************************************************************************)
C7_PrefixContainment ==
    \A i \in Positions :
        Processed(i) =>
            (i \in Chatted <=> (existsSync(mediaPaths[i]) /\ PrefixOfSomeRoot(mediaPaths[i])))

\* /a/bc/secret was described although it lies in no permitted directory
C7_Witness ==
    /\ Done
    /\ permittedDirectories = <<Str("/a/b")>>
    /\ \E i \in Positions :
        /\ mediaPaths[i] = Secret
        /\ ~UnderSomeRoot(Secret)
        /\ i \in Chatted
        /\ results[i].success

\* f and g are the same filesystem but for the file p
DifferOnlyAt(f, g, p) ==
    \E l \in {SegsOf(p)} :
        /\ f.dirs = g.dirs
        /\ f.files \ {l} = g.files \ {l}
        /\ (l \in f.files) # (l \in g.files)

\* the answers for path i here and on the filesystem g are the two denials,
\* one each
LeaksExistence(i, g) ==
    \E p \in {mediaPaths[i]} : \E there \in {checkPathIn(g, permittedDirectories, p)} :
        /\ results[i].success = FALSE
        /\ there.threw
        /\ {results[i].error, there.message} = {NotFoundMsg(p), NotAllowedMsg}
        /\ NotFoundMsg(p) # NotAllowedMsg

\* The existence of a path that isSafePath rejects shows in the answer: on two
\* filesystems that differ only in that path, one answer is 'Path does not
\* exist' and the other 'Path not allowed'.
ExistenceOracleForRejected ==
    Done =>
        \A i \in Positions : \A g \in BatchFs :
            (~PrefixOfSomeRoot(mediaPaths[i]) /\ DifferOnlyAt(fsys, g, mediaPaths[i]))
                => LeaksExistence(i, g)

(***************************************************************************)
(* C8: for a path outside every permitted directory the outcome tells      *)
(* whether the path exists: on two filesystems that differ only in that    *)
(* path, the same request is answered 'Path does not exist' on one and     *)
(* 'Path not allowed' on the other.                                        *)
(***************************************************************************)
C8_ExistenceOracleOutsideRoots ==
    Done =>
        \A i \in Positions : \A g \in BatchFs :
            (~UnderSomeRoot(mediaPaths[i]) /\ DifferOnlyAt(fsys, g, mediaPaths[i]))
                => LeaksExistence(i, g)

(***************************************************************************)
(* C9: the paths of a batch are handled one at a time in input order: at   *)
(* most one chat call is pending, and checkPath and the chat call for a    *)
(* path start only after the outcome of the path before it was pushed.     *)
(***************************************************************************)
C9_Sequential ==
    /\ Cardinality(inflight) <= 1
    /\ \A k \in 1 .. Len(log) :
        /\ \A j \in 1 .. k : log[j].i <= log[k].i
        /\ (log[k].ev \in {"checkPath", "chat"} /\ log[k].i > 1) =>
                \E j \in 1 .. k - 1 : log[j] = [ev |-> "push", i |-> log[k].i - 1]
    /\ \A i \in Positions : At("push", i) # {} <=> i <= Len(results)

\* the second path's chat call is pending after the first path was described
C9_Witness ==
    /\ pc = "await"
    /\ inflight = {2}
    /\ 1 \in Chatted
    /\ Len(results) = 1

\* while the pending chat call stays pending, the handler does nothing
StallsWhilePending ==
    [][(inflight # {} /\ inflight' = inflight) =>
            (results' = results /\ idx' = idx /\ log' = log /\ response' = response
                /\ pc' = pc)]_vars

\* a running handler returns (under SpecAnswered, whose fairness says that
\* every chat call ends)
ReturnsIfAnswered == (pc \in {"loop", "await"}) ~> Done

(***************************************************************************)
(* C10: there is no timeout: while a chat call is pending the handler      *)
(* pushes nothing, checks nothing and returns nothing; and if every chat   *)
(* call that is made ends, the handler returns.                            *)
(***************************************************************************)
C10_NoTimeout == StallsWhilePending /\ ReturnsIfAnswered

\* a chat call is pending with paths still to go, and neither the loop nor
\* the return can run
C10_Witness ==
    /\ pc = "await"
    /\ inflight = {idx}
    /\ idx < Len(mediaPaths)
    /\ ~ENABLED LoopBody
    /\ ~ENABLED Return

====
